---- MODULE Spec2Model ----
(***************************************************************************)
(* Scoring engine (analyze_nikkei_score.analyze_stock) and strategy        *)
(* deriver (calculate_swing_strategy.get_strategy_metrics) of the stock    *)
(* analyzer, over a price history of daily bars.                           *)
(*                                                                         *)
(* Numbers.  Prices and volumes of the bars are integers (yen, shares).    *)
(* A float of the program is a tagged record:                              *)
(*   [t |-> "num", v |-> x]   the value x / K   (K-scaled fixed point)     *)
(*   [t |-> "nan", v |-> 0]   NaN: every comparison with it is false       *)
(*   [t |-> "none", v |-> 0]  Python None                                  *)
(* K is a common multiple of every rolling window (5, 14, 25, 75) and of   *)
(* 4, so rolling means and Ichimoku midpoints are exact.  A quotient of    *)
(* two floats (RSI, volume ratio, daily return, risk/reward) is kept as    *)
(* an exact fraction [t, num, den] and compared by cross-multiplication.   *)
(* Only the exponential averages of MACD are rounded (to 1/K yen).         *)
(***************************************************************************)
EXTENDS Integers, Sequences, FiniteSets, TLC

VARIABLES
    hist,   \* the price history that ticker.history returned
    plan,   \* outcome of get_strategy_metrics on hist, or Pending
    args,   \* arguments of the analyze_stock call, or NoCall
    res,    \* value returned by analyze_stock, or Pending
    \* get_scored_stocks
    outcome,          \* what analyze_stock does for each ticker of the batch
    queue,            \* submitted tickers that no worker thread has taken yet
    running,          \* tickers being analysed by a worker thread
    finished,         \* completed futures that as_completed has not yielded yet
    results,          \* the list results of the collecting loop
    processed_count,  \* number of futures the loop has handled
    ranking,          \* what get_scored_stocks returned, or NotReturned
    \* calculate_strategy
    target_hist,      \* the price history of each target code
    next_target,      \* position in targets of the next loop iteration
    printed,          \* the table rows printed so far
    raised            \* an exception left calculate_strategy

analysis_vars == <<hist, plan, args, res>>
batch_vars == <<outcome, queue, running, finished, results, processed_count, ranking>>
strategy_vars == <<target_hist, next_target, printed, raised>>
vars == <<analysis_vars, batch_vars, strategy_vars>>

K == 4 * 525

---------------------------------------------------------------------------
(* Floats *)

Num(x) == [t |-> "num", v |-> x]
NaN == [t |-> "nan", v |-> 0]
None == [t |-> "none", v |-> 0]

IsNum(a) == a.t = "num"

\* Python/IEEE comparisons: false as soon as one side is NaN.
Gt(a, b) == IsNum(a) /\ IsNum(b) /\ a.v > b.v
Lt(a, b) == IsNum(a) /\ IsNum(b) /\ a.v < b.v
Ge(a, b) == IsNum(a) /\ IsNum(b) /\ a.v >= b.v
Le(a, b) == IsNum(a) /\ IsNum(b) /\ a.v <= b.v

Add(a, b) == IF IsNum(a) /\ IsNum(b) THEN Num(a.v + b.v) ELSE NaN
Sub(a, b) == IF IsNum(a) /\ IsNum(b) THEN Num(a.v - b.v) ELSE NaN
\* k * a for a literal k given as the fraction p/q (q divides the values used)
Mul(p, q, a) == IF IsNum(a) THEN Num((p * a.v) \div q) ELSE NaN

\* Exact fractions num/den, den > 0; "inf" and "nan" as numpy produces them.
Frac(n, d) == [t |-> "num", num |-> n, den |-> d]
FracNaN == [t |-> "nan", num |-> 0, den |-> 1]
FracInf == [t |-> "inf", num |-> 1, den |-> 1]

\* numpy float64 division a / b: x/0 is inf (no exception), 0/0 and NaN are NaN.
Div(a, b) ==
    IF ~IsNum(a) \/ ~IsNum(b) THEN FracNaN
    ELSE IF b.v = 0 THEN (IF a.v = 0 THEN FracNaN ELSE FracInf)
    ELSE IF b.v > 0 THEN Frac(a.v, b.v)
    ELSE Frac(-a.v, -b.v)

\* r >= p/q, r > p/q, r < p/q, r <= p/q for a fraction r and a literal p/q, q > 0
FGe(r, p, q) == \/ r.t = "inf"
                \/ r.t = "num" /\ r.num * q >= p * r.den
FGt(r, p, q) == \/ r.t = "inf"
                \/ r.t = "num" /\ r.num * q > p * r.den
FLt(r, p, q) == r.t = "num" /\ r.num * q < p * r.den
FLe(r, p, q) == r.t = "num" /\ r.num * q <= p * r.den

\* int(x) of Python: truncation toward zero of a / b, b > 0
Trunc(a, b) == IF a >= 0 THEN a \div b ELSE -((-a) \div b)

Max2(a, b) == IF a >= b THEN a ELSE b
Min2(a, b) == IF a <= b THEN a ELSE b

---------------------------------------------------------------------------
(* pandas series over the history h (a sequence of bars, oldest first).    *)
(* Positions are 1-based: iloc[-1] is position Len(h), iloc[-k] is         *)
(* position Len(h) - k + 1 and raises IndexError when that is below 1.     *)

CloseCol(h) == [i \in 1..Len(h) |-> h[i].Close]
HighCol(h) == [i \in 1..Len(h) |-> h[i].High]
LowCol(h) == [i \in 1..Len(h) |-> h[i].Low]
VolumeCol(h) == [i \in 1..Len(h) |-> h[i].Volume]

\* The range is halved at each step so that the evaluation stays shallow on
\* long windows.
RECURSIVE SumRange(_, _, _)
SumRange(col, lo, hi) ==
    IF lo > hi THEN 0
    ELSE IF lo = hi THEN col[lo]
    ELSE LET mid == (lo + hi) \div 2
         IN  SumRange(col, lo, mid) + SumRange(col, mid + 1, hi)

RECURSIVE MaxRange(_, _, _)
MaxRange(col, lo, hi) ==
    IF lo = hi THEN col[lo]
    ELSE LET mid == (lo + hi) \div 2
         IN  Max2(MaxRange(col, lo, mid), MaxRange(col, mid + 1, hi))

RECURSIVE MinRange(_, _, _)
MinRange(col, lo, hi) ==
    IF lo = hi THEN col[lo]
    ELSE LET mid == (lo + hi) \div 2
         IN  Min2(MinRange(col, lo, mid), MinRange(col, mid + 1, hi))

\* col.rolling(window=w).mean() at position i: NaN until w values are there.
RollingMean(col, w, i) ==
    IF i < w \/ i > Len(col) THEN NaN
    ELSE Num((K \div w) * SumRange(col, i - w + 1, i))

\* col.rolling(window=w).max() / .min() at position i, as plain integers
RollingMax(col, w, i) == MaxRange(col, i - w + 1, i)
RollingMin(col, w, i) == MinRange(col, i - w + 1, i)

\* hist['Close'].diff(): NaN at position 1
\* delta.where(delta > 0, 0): the NaN of position 1 fails the test and becomes 0
GainCol(h) ==
    [i \in 1..Len(h) |->
        IF i = 1 THEN 0 ELSE Max2(h[i].Close - h[i - 1].Close, 0)]
\* -delta.where(delta < 0, 0)
LossCol(h) ==
    [i \in 1..Len(h) |->
        IF i = 1 THEN 0 ELSE Max2(h[i - 1].Close - h[i].Close, 0)]

\* rsi = 100 - (100 / (1 + rs)).iloc[-1], rs = gain / loss of the 14-bar means.
\* gain / loss: x/0 = inf gives 100, 0/0 = NaN gives NaN, NaN before 14 bars.
\* Otherwise 100 - 100/(1 + g/l) = 100 g / (g + l), kept as a fraction.

\* Mutant of rsi14: RSI saturates at 100 whenever the average loss is zero
rsi14_saturating(h) ==
    LET n == Len(h)
        g == SumRange(GainCol(h), n - 13, n)
        l == SumRange(LossCol(h), n - 13, n)
    IN  IF n < 14 THEN FracNaN
        ELSE IF l = 0 THEN Frac(100, 1)
        ELSE Frac(100 * g, g + l)

rsi14(h) ==
    LET n == Len(h)
        g == SumRange(GainCol(h), n - 13, n)
        l == SumRange(LossCol(h), n - 13, n)
    IN  IF n < 14 THEN FracNaN
        ELSE IF l = 0 THEN (IF g = 0 THEN FracNaN ELSE Frac(100, 1))
        ELSE Frac(100 * g, g + l)

Abs(x) == IF x >= 0 THEN x ELSE -x

\* tr = concat([high_low, high_close, low_close]).max(axis=1): the row maximum
\* skips the NaN that shift() leaves at position 1.
TrueRangeCol(h) ==
    [i \in 1..Len(h) |->
        IF i = 1 THEN h[i].High - h[i].Low
        ELSE Max2(h[i].High - h[i].Low,
                  Max2(Abs(h[i].High - h[i - 1].Close),
                       Abs(h[i].Low - h[i - 1].Close)))]

\* atr = tr.rolling(14).mean().iloc[-1]
atr14(h) == RollingMean(TrueRangeCol(h), 14, Len(h))

ma5(h) == RollingMean(CloseCol(h), 5, Len(h))
ma25(h) == RollingMean(CloseCol(h), 25, Len(h))
ma75(h) == RollingMean(CloseCol(h), 75, Len(h))

\* recent_high = hist['High'].iloc[-60:].max(): the slice is clipped to the series
recent_high(h) == Num(K * MaxRange(HighCol(h), Max2(1, Len(h) - 59), Len(h)))

current_price(h) == Num(K * h[Len(h)].Close)

---------------------------------------------------------------------------
(* calculate_swing_strategy.get_strategy_metrics *)

\* Mutant of EntryPolicy: the trend-follow rule is tested before the momentum rule
EntryPolicy_reordered(price, m5, m25, m75, rsi) ==
    IF Gt(price, m25) /\ FGe(rsi, 45, 1)
        THEN [entry_price |-> m5, dip_desc |-> "Trend Follow (MA5)"]
    ELSE IF Gt(price, m5) /\ FGe(rsi, 60, 1)
        THEN [entry_price |-> price, dip_desc |-> "Momentum Buy"]
    ELSE IF Gt(price, m25)
        THEN [entry_price |-> m25, dip_desc |-> "Dip Buy (MA25)"]
    ELSE IF Gt(price, m75)
        THEN [entry_price |-> m75, dip_desc |-> "Rebound (MA75)"]
    ELSE [entry_price |-> price, dip_desc |-> "Bottom Fishing"]

\* STRATEGY LOGIC (Dynamic Entry): the if / elif chain
EntryPolicy(price, m5, m25, m75, rsi) ==
    IF Gt(price, m5) /\ FGe(rsi, 60, 1)
        THEN [entry_price |-> price, dip_desc |-> "Momentum Buy"]
    ELSE IF Gt(price, m25) /\ FGe(rsi, 45, 1)
        THEN [entry_price |-> m5, dip_desc |-> "Trend Follow (MA5)"]
    ELSE IF Gt(price, m25)
        THEN [entry_price |-> m25, dip_desc |-> "Dip Buy (MA25)"]
    ELSE IF Gt(price, m75)
        THEN [entry_price |-> m75, dip_desc |-> "Rebound (MA75)"]
    ELSE [entry_price |-> price, dip_desc |-> "Bottom Fishing"]

\* stop_loss = entry_price - (2 * atr)
StopLossOf(entry_price, atr) == Sub(entry_price, Mul(2, 1, atr))

\* Mutant of TargetProfitOf: the replacement target is only one ATR away
TargetProfitOf_tight(rh, entry_price, atr) ==
    IF Lt(Sub(rh, entry_price), Mul(3, 2, atr))
        THEN Add(entry_price, atr)
        ELSE rh

\* target_profit = recent_high, replaced by entry_price + 4 * atr when
\* (target_profit - entry_price) < 1.5 * atr
TargetProfitOf(rh, entry_price, atr) ==
    IF Lt(Sub(rh, entry_price), Mul(3, 2, atr))
        THEN Add(entry_price, Mul(4, 1, atr))
        ELSE rh

\* Mutant of RiskRewardOf: the division is not guarded
RiskRewardOf_unguarded(target_profit, entry_price, stop_loss) ==
    Div(Sub(target_profit, entry_price), Sub(entry_price, stop_loss))

\* Mutant of RiskRewardOf: the denominator is floored to 0.1 instead
RiskRewardOf_clamped(target_profit, entry_price, stop_loss) ==
    LET potential_profit == Sub(target_profit, entry_price)
        potential_loss == Sub(entry_price, stop_loss)
    IN  IF Gt(potential_loss, Num(0))
            THEN Div(potential_profit, potential_loss)
            ELSE Div(potential_profit, Num(K \div 10))

\* rr_ratio = potential_profit / potential_loss if potential_loss > 0 else 0
RiskRewardOf(target_profit, entry_price, stop_loss) ==
    LET potential_profit == Sub(target_profit, entry_price)
        potential_loss == Sub(entry_price, stop_loss)
    IN  IF Gt(potential_loss, Num(0))
            THEN Div(potential_profit, potential_loss)
            ELSE Frac(0, 1)

\* int(x) raises ValueError for NaN
IntRaises(x) == ~IsNum(x)

\* The int() conversions of the text report, in the order they are evaluated:
\* the moving average of the selected policy, then target_profit, stop_loss.
ReportRaises(dip_desc, m5, m25, m75, target_profit, stop_loss) ==
    \/ dip_desc = "Trend Follow (MA5)" /\ IntRaises(m5)
    \/ dip_desc = "Dip Buy (MA25)" /\ IntRaises(m25)
    \/ dip_desc = "Rebound (MA75)" /\ IntRaises(m75)
    \/ IntRaises(target_profit)
    \/ IntRaises(stop_loss)

Raised(exc) == [kind |-> "raise", exc |-> exc]

\* The outcome of get_strategy_metrics(code) when ticker.history returns h:
\* the returned dictionary, or the exception that leaves the function.
\* "ind" holds the function's local indicator values at that point.
get_strategy_metrics(h) ==
    IF Len(h) = 0 THEN Raised("ValueError: No price data found")
    ELSE
    LET price == current_price(h)
        m5 == ma5(h)
        m25 == ma25(h)
        m75 == ma75(h)
        rsi == rsi14(h)
        atr == atr14(h)
        rh == recent_high(h)
        policy == EntryPolicy(price, m5, m25, m75, rsi)
        entry_price == policy.entry_price
        stop_loss == StopLossOf(entry_price, atr)
        target_profit == TargetProfitOf(rh, entry_price, atr)
        rr_ratio == RiskRewardOf(target_profit, entry_price, stop_loss)
    IN  IF ReportRaises(policy.dip_desc, m5, m25, m75, target_profit, stop_loss)
            THEN Raised("ValueError: cannot convert float NaN to integer")
        ELSE [kind |-> "plan",
              CurrentPrice |-> price,
              EntryPrice |-> entry_price,
              DipDesc |-> policy.dip_desc,
              StopLoss |-> stop_loss,
              TargetProfit |-> target_profit,
              RR |-> rr_ratio,
              ATR |-> atr,
              ind |-> [ma5 |-> m5, ma25 |-> m25, ma75 |-> m75, rsi |-> rsi,
                       recent_high |-> rh]]

---------------------------------------------------------------------------
(* analyze_nikkei_score.analyze_stock: indicators *)

\* ma25_prev = hist['Close'].rolling(window=25).mean().iloc[-6]
ma25_prev(h) == RollingMean(CloseCol(h), 25, Len(h) - 5)

\* MACD (12, 26, 9) with ewm(span, adjust=False): e[1] = x[1] and
\* e[i] = (2 x[i] + (span - 1) e[i-1]) / (span + 1); signal is the span-9 average
\* of macd = ema12 - ema26.  Values are K-scaled and rounded down to 1/K.
\* The row of position 1
MacdFirst(c) ==
    [i |-> 1, ema12 |-> K * c, ema26 |-> K * c, macd |-> 0, signal |-> 0]

\* The row of position p.i + 1, from the row p of the position before
MacdStep(p, c) ==
    LET e12 == (2 * K * c + 11 * p.ema12) \div 13
        e26 == (2 * K * c + 25 * p.ema26) \div 27
    IN  [i |-> p.i + 1, ema12 |-> e12, ema26 |-> e26, macd |-> e12 - e26,
         signal |-> (2 * (e12 - e26) + 8 * p.signal) \div 10]

\* The row of position hi, from the row p of an earlier position (the range
\* is halved so that the evaluation stays shallow on long series)
RECURSIVE MacdFold(_, _, _)
MacdFold(p, col, hi) ==
    IF p.i >= hi THEN p
    ELSE IF p.i + 1 = hi THEN MacdStep(p, col[hi])
    ELSE MacdFold(MacdFold(p, col, (p.i + hi) \div 2), col, hi)

MacdState(col, i) == MacdFold(MacdFirst(col[1]), col, i)

macd_val(h) == Num(MacdState(CloseCol(h), Len(h)).macd)
signal_val(h) == Num(MacdState(CloseCol(h), Len(h)).signal)

\* (rolling(w) max of High + rolling(w) min of Low) / 2 at position i
Midpoint(h, w, i) ==
    IF i < w \/ i > Len(h) THEN NaN
    ELSE Num((K \div 2) * (RollingMax(HighCol(h), w, i) + RollingMin(LowCol(h), w, i)))

tenkan_val(h) == Midpoint(h, 9, Len(h))
kijun_val(h) == Midpoint(h, 26, Len(h))

\* senkou_a = ((tenkan + kijun) / 2).shift(26), senkou_b likewise from the
\* 52-bar midpoint: the latest value is the one of 26 bars earlier.
senkou_a_val(h) ==
    LET i == Len(h) - 26
    IN  Mul(1, 2, Add(Midpoint(h, 9, i), Midpoint(h, 26, i)))
senkou_b_val(h) == Midpoint(h, 52, Len(h) - 26)

\* Python's max(a, b): b when b > a, else a (so a NaN first argument wins)
PyMax(a, b) == IF Gt(b, a) THEN b ELSE a

kumo_top(h) == PyMax(senkou_a_val(h), senkou_b_val(h))

\* vol_ratio = current_vol / vol_ma25 if vol_ma25 > 0 else 1.0
vol_ratio(h) ==
    LET n == Len(h)
        vol_ma25 == RollingMean(VolumeCol(h), 25, n)
    IN  IF Gt(vol_ma25, Num(0))
            THEN Div(Num(K * h[n].Volume), vol_ma25)
            ELSE Frac(1, 1)

\* daily_ret = (current_price - prev_close) / prev_close, 0.0 when iloc[-2] raises
daily_ret(h) ==
    LET n == Len(h)
    IN  IF n < 2 THEN Frac(0, 1)
        ELSE Div(Num(h[n].Close - h[n - 1].Close), Num(h[n - 1].Close))

---------------------------------------------------------------------------
(* analyze_stock: fundamentals *)

\* A key that a dictionary does not hold
Missing == [t |-> "missing", v |-> 0]

\* x or 0: None, a missing key's default 0 and 0 itself give 0; NaN is truthy
OrZero(x) ==
    IF x.t \in {"missing", "none"} \/ (x.t = "num" /\ x.v = 0) THEN Num(0) ELSE x

\* d.get(key, default)
DictGet(x, default) == IF x.t = "missing" THEN default ELSE x

\* `if fundamentals:` is false for None and for an empty dictionary
FundamentalsTruthy(f) == f.given /\ (f.pbr.t # "missing" \/ f.per.t # "missing")

\* pbr, per = 0, 0; then ticker.info when a ticker was created (single mode,
\* errors ignored); then the fundamentals argument when it is truthy.
\* batch: hist_data was passed, so ticker is None.
ResolveFundamentals(batch, info, f) ==
    LET fromInfo == ~batch /\ ~info.raises
        pbr0 == IF fromInfo THEN OrZero(info.priceToBook) ELSE Num(0)
        per0 == IF fromInfo THEN OrZero(info.trailingPE) ELSE Num(0)
    IN  IF FundamentalsTruthy(f)
            THEN [pbr |-> DictGet(f.pbr, pbr0), per |-> DictGet(f.per, per0)]
            ELSE [pbr |-> pbr0, per |-> per0]

---------------------------------------------------------------------------
(* analyze_stock: scoring *)

Bonus(cond, pts) == IF cond THEN pts ELSE 0

\* Mutant of ScoreTrend: the tests are >= instead of >
ScoreTrend_nonStrict(price, m5, m25, m25p, ktop, tenkan, kijun, macd, signal) ==
      Bonus(Ge(price, m25), 10)
    + Bonus(Ge(m25, m25p), 10)
    + Bonus(Ge(m5, m25), 10)
    + Bonus(Ge(price, ktop), 5)
    + Bonus(Ge(tenkan, kijun), 5)
    + Bonus(Ge(macd, signal), 5)
    + Bonus(Ge(macd, Num(0)), 5)

\* Mutant of ScoreTrend: the short-term bonus is 15 points
ScoreTrend_heavy(price, m5, m25, m25p, ktop, tenkan, kijun, macd, signal) ==
      Bonus(Gt(price, m25), 10)
    + Bonus(Gt(m25, m25p), 10)
    + Bonus(Gt(m5, m25), 15)
    + Bonus(Gt(price, ktop), 5)
    + Bonus(Gt(tenkan, kijun), 5)
    + Bonus(Gt(macd, signal), 5)
    + Bonus(Gt(macd, Num(0)), 5)

\* A. Trend
ScoreTrend(price, m5, m25, m25p, ktop, tenkan, kijun, macd, signal) ==
      Bonus(Gt(price, m25), 10)
    + Bonus(Gt(m25, m25p), 10)
    + Bonus(Gt(m5, m25), 10)
    + Bonus(Gt(price, ktop), 5)
    + Bonus(Gt(tenkan, kijun), 5)
    + Bonus(Gt(macd, signal), 5)
    + Bonus(Gt(macd, Num(0)), 5)

\* Mutant of ScoreMom: the overheated branch is missing
ScoreMom_noPenalty(rsi) ==
    IF FGe(rsi, 50, 1) /\ FLe(rsi, 75, 1) THEN 20
    ELSE IF FGe(rsi, 40, 1) /\ FLt(rsi, 50, 1) THEN 10
    ELSE 0

\* B. Momentum
ScoreMom(rsi) ==
    IF FGe(rsi, 50, 1) /\ FLe(rsi, 75, 1) THEN 20
    ELSE IF FGe(rsi, 40, 1) /\ FLt(rsi, 50, 1) THEN 10
    ELSE IF FGt(rsi, 80, 1) THEN -5
    ELSE 0

\* Mutant of ScoreVol: the panic-selling test is missing
ScoreVol_noPanic(vr, dr) ==
    IF FGt(vr, 3, 2) THEN 10
    ELSE IF FGt(vr, 12, 10) /\ FGt(dr, -2, 100) THEN 5
    ELSE 0

\* C. Volume, with the panic-selling test
ScoreVol(vr, dr) ==
    IF FGt(vr, 3, 2)
        THEN (IF FLt(dr, -3, 100) THEN -10 ELSE 10)
    ELSE IF FGt(vr, 12, 10) /\ FGt(dr, -2, 100) THEN 5
    ELSE 0

\* 0 < x < hi / 1 for Python numbers (None is handled before)
Between0(x, hi) == Gt(x, Num(0)) /\ Lt(x, Num(hi))

\* Mutant of ScoreFund: the lower bounds 0 < pbr, 0 < per are missing
ScoreFund_noLowerBound(pbr, per) ==
    Bonus(Lt(pbr, Num((3 * K) \div 2)), 5) + Bonus(Lt(per, Num(25 * K)), 5)

\* D. Fundamental score
ScoreFund(pbr, per) ==
    Bonus(Between0(pbr, (3 * K) \div 2), 5) + Bonus(Between0(per, 25 * K), 5)

\* Mutant of RiskRewardRatio: the stop is always 2 ATR below the price, as for
\* an entry at the current price in get_strategy_metrics
RiskRewardRatio_fromPrice(price, m25, atr, rh) ==
    LET upside == Sub(rh, price)
        downside0 == Sub(price, Sub(price, Mul(2, 1, atr)))
        downside == IF Le(downside0, Num(0)) THEN Num(K \div 10) ELSE downside0
    IN  Div(upside, downside)

\* E. Risk reward: rr = upside / downside with downside floored to 0.1
RiskRewardRatio(price, m25, atr, rh) ==
    LET StopLoss == IF Lt(price, m25)
                        THEN Sub(price, Mul(2, 1, atr))
                        ELSE Sub(m25, atr)
        upside == Sub(rh, price)
        downside0 == Sub(price, StopLoss)
        downside == IF Le(downside0, Num(0)) THEN Num(K \div 10) ELSE downside0
    IN  Div(upside, downside)

\* rr_score = min(10, rr * 3) when rr >= 1.0, as an exact fraction
ScoreRR(rr) ==
    IF FGe(rr, 1, 1)
        THEN (IF FLt(rr, 10, 3) THEN Frac(3 * rr.num, rr.den) ELSE Frac(10, 1))
        ELSE Frac(0, 1)

\* score = min(100, int(total_score))
TotalScore(trend, mom, vol, fund, srr) ==
    Min2(100, Trunc((trend + mom + vol + fund) * srr.den + srr.num, srr.den))

\* short_reason, in order.  The tags are named in English here: "gekiatsu" and
\* "tsuyoki" (score >= 80, >= 70), "panic" (panic selling alert), "uptrend",
\* "momentum", "volume_up" (volume increase), "low_pbr".
Tag(cond, tag) == IF cond THEN <<tag>> ELSE <<>>

\* Mutant of ShortReason: the volume-increase tag does not test the daily return
ShortReason_anyReturn(score, price, m25, m25p, rsi, vr, dr, pbr) ==
       Tag(score >= 80, "gekiatsu")
    \o Tag(score < 80 /\ score >= 70, "tsuyoki")
    \o Tag(FLt(dr, -3, 100) /\ FGt(vr, 3, 2), "panic")
    \o Tag(Gt(m25, m25p) /\ Gt(price, m25), "uptrend")
    \o Tag(FGe(rsi, 50, 1) /\ FLe(rsi, 75, 1), "momentum")
    \o Tag(FGt(vr, 3, 2), "volume_up")
    \o Tag(Between0(pbr, K), "low_pbr")

ShortReason(score, price, m25, m25p, rsi, vr, dr, pbr) ==
       Tag(score >= 80, "gekiatsu")
    \o Tag(score < 80 /\ score >= 70, "tsuyoki")
    \o Tag(FLt(dr, -3, 100) /\ FGt(vr, 3, 2), "panic")
    \o Tag(Gt(m25, m25p) /\ Gt(price, m25), "uptrend")
    \o Tag(FGe(rsi, 50, 1) /\ FLe(rsi, 75, 1), "momentum")
    \o Tag(FGt(vr, 3, 2) /\ FGe(dr, -3, 100), "volume_up")
    \o Tag(Between0(pbr, K), "low_pbr")

NoResult(why) == [kind |-> "None", why |-> why]

\* The value analyze_stock returns for history h.  Every exception raised in
\* the body is caught by the outer handler, which logs it and returns None.
analyze_stock(h, batch, info, f) ==
    IF Len(h) = 0 THEN NoResult("empty")
    ELSE IF Len(h) < 6 THEN NoResult("IndexError")    \* .iloc[-6]
    ELSE
    LET price == current_price(h)
        m5 == ma5(h)
        m25 == ma25(h)
        m25p == ma25_prev(h)
        atr == atr14(h)
        rsi == rsi14(h)
        vr == vol_ratio(h)
        dr == daily_ret(h)
        fund == ResolveFundamentals(batch, info, f)
        score_trend == ScoreTrend(price, m5, m25, m25p, kumo_top(h),
                                  tenkan_val(h), kijun_val(h),
                                  macd_val(h), signal_val(h))
        score_mom == ScoreMom(rsi)
        score_vol == ScoreVol(vr, dr)
        score_fund == ScoreFund(fund.pbr, fund.per)
        rr == RiskRewardRatio(price, m25, atr, recent_high(h))
        score_rr == ScoreRR(rr)
        score == TotalScore(score_trend, score_mom, score_vol, score_fund, score_rr)
    IN  IF fund.pbr.t = "none" \/ fund.per.t = "none"
            THEN NoResult("TypeError")                \* 0 < None
        ELSE [kind |-> "result",
              Price |-> price,
              Score |-> score,
              MA25 |-> m25,
              RSI |-> rsi,
              PBR |-> fund.pbr,
              PER |-> fund.per,
              RR |-> rr,
              Details |-> ShortReason(score, price, m25, m25p, rsi, vr, dr, fund.pbr),
              ScoreDetail |-> [Trend |-> score_trend,
                               Momentum |-> score_mom,
                               Volume |-> score_vol,
                               Fundamentals |-> score_fund,
                               RiskReward |-> Trunc(score_rr.num, score_rr.den)],
              ind |-> [vol_ratio |-> vr, daily_ret |-> dr, atr |-> atr,
                       recent_high |-> recent_high(h), score_rr |-> score_rr]]

---------------------------------------------------------------------------
(* Inputs: the history that ticker.history returns.                        *)
(* A history is two flat runs (RunA bars at level 1000, then RunB bars at  *)
(* a second level) followed by up to MaxTail freely chosen bars.  Every    *)
(* bar has High = Close + spread and Low = Close - spread.                 *)

MaxTail == 2

RunA == {0, 50, 70}
RunB == {0, 5, 12, 20, 30}
Levels == {950, 1000, 1030}
Spreads == {0, 100}

\* A tail bar: change of the close against the previous bar, and volume
TailBars ==
    { [dc |-> 40, vol |-> 2000],
      [dc |-> -40, vol |-> 2000],
      [dc |-> -40, vol |-> 1300],
      [dc |-> -10, vol |-> 1000],
      [dc |-> 10, vol |-> 1300] }

MkBar(close, sp, vol) ==
    [Close |-> close, High |-> close + sp, Low |-> close - sp, Volume |-> vol]

RECURSIVE AddTail(_, _, _, _)
AddTail(h, last, sp, tail) ==
    IF tail = <<>> THEN h
    ELSE LET c == last + Head(tail).dc
         IN  AddTail(Append(h, MkBar(c, sp, Head(tail).vol)), c, sp, Tail(tail))

BuildHist(a, b, l2, sp, tail) ==
    LET runA == [i \in 1..a |-> MkBar(1000, sp, 1000)]
        runB == [i \in 1..b |-> MkBar(l2, sp, 1000)]
        last == IF b > 0 THEN l2 ELSE 1000
    IN  AddTail(runA \o runB, last, sp, tail)

TailSeqs == UNION { [1..k -> TailBars] : k \in 0..MaxTail }

Histories ==
    { BuildHist(a, b, l2, sp, tail) :
        a \in RunA, b \in RunB, l2 \in Levels, sp \in Spreads, tail \in TailSeqs }

\* ticker.info: the fetch fails, or returns priceToBook / trailingPE
InfoRaises == [raises |-> TRUE, priceToBook |-> Missing, trailingPE |-> Missing]
Info(pb, pe) == [raises |-> FALSE, priceToBook |-> pb, trailingPE |-> pe]

\* the fundamentals argument: not passed (None), or a dictionary
NoFundamentals == [given |-> FALSE, pbr |-> Missing, per |-> Missing]
Fundamentals(pbr, per) == [given |-> TRUE, pbr |-> pbr, per |-> per]

\* x / 10 as a float
Tenths(x) == Num((x * K) \div 10)

\* The calls of analyze_stock that are tried: <<batch, info, fundamentals>>
Calls ==
    { <<FALSE, InfoRaises, NoFundamentals>>,
      <<FALSE, Info(None, Missing), NoFundamentals>>,
      <<FALSE, Info(Tenths(8), Tenths(200)), NoFundamentals>>,
      <<FALSE, Info(Tenths(-10), Tenths(250)), NoFundamentals>>,
      <<TRUE, InfoRaises, Fundamentals(Tenths(8), Missing)>>,
      <<TRUE, InfoRaises, Fundamentals(None, Tenths(200))>>,
      <<TRUE, InfoRaises, Fundamentals(NaN, Tenths(250))>> }

---------------------------------------------------------------------------
(* The state machine: a history is fetched, and the two functions are      *)
(* called on it (in either order, each once).                              *)

Pending == [kind |-> "pending"]
NoCall == [called |-> FALSE, batch |-> FALSE, info |-> InfoRaises, f |-> NoFundamentals]
Call(c) == [called |-> TRUE, batch |-> c[1], info |-> c[2], f |-> c[3]]

NotReturned == [done |-> FALSE, list |-> <<>>]

\* No analysis, batch or table is under way
AnalysisIdle == hist = <<>> /\ plan = Pending /\ args = NoCall /\ res = Pending
BatchIdle ==
    /\ outcome = <<>> /\ queue = <<>> /\ running = {} /\ finished = {}
    /\ results = <<>> /\ processed_count = 0 /\ ranking = NotReturned
StrategyIdle ==
    target_hist = <<>> /\ next_target = 0 /\ printed = <<>> /\ raised = FALSE

Init ==
    /\ hist \in Histories
    /\ plan = Pending
    /\ args = NoCall
    /\ res = Pending
    /\ BatchIdle
    /\ StrategyIdle

GetStrategyMetrics ==
    /\ plan = Pending
    /\ plan' = get_strategy_metrics(hist)
    /\ UNCHANGED <<hist, args, res, batch_vars, strategy_vars>>

AnalyzeStock ==
    /\ res = Pending
    /\ \E c \in Calls :
        /\ args' = Call(c)
        /\ res' = analyze_stock(hist, c[1], c[2], c[3])
    /\ UNCHANGED <<hist, plan, batch_vars, strategy_vars>>

Next == GetStrategyMetrics \/ AnalyzeStock

Spec == Init /\ [][Next]_vars

---------------------------------------------------------------------------
(* get_scored_stocks: the tickers are submitted to a pool of max_workers     *)
(* threads, the main thread handles the futures as they complete, and the    *)
(* collected list is sorted by Score.                                        *)

NumTickers == 4
max_workers == 4

\* tickers: distinct codes (list(set(...))), here the positions 1..NumTickers
Tickers == [i \in 1..NumTickers |-> i]

\* What a worker's analyze_stock(code) does: returns a result dictionary with
\* some Score, returns None, or ends with an exception
Outcomes ==
    { [kind |-> "result", Score |-> 50],
      [kind |-> "result", Score |-> 70],
      [kind |-> "None", Score |-> 0],
      [kind |-> "raise", Score |-> 0] }

\* The dictionary analyze_stock returns for ticker t
ResultOf(t, o) == [Code |-> t, Score |-> o.Score]

\* Mutant of Collected: the value of the future is appended without the test
Collected_unchecked(rs, t, o) ==
    IF o.kind = "raise" THEN rs ELSE Append(rs, ResultOf(t, o))

\* res = future.result(); if res and isinstance(res, dict) and 'Score' in res:
\* results.append(res); an exception of the future is caught and printed
Collected(rs, t, o) ==
    IF o.kind = "result" THEN Append(rs, ResultOf(t, o)) ELSE rs

\* list.sort(key=Score, reverse=True): stable, elements with equal keys keep
\* the order they had in the list
RECURSIVE InsertDesc(_, _)
InsertDesc(x, s) ==
    IF s = <<>> THEN <<x>>
    ELSE IF Head(s).Score >= x.Score THEN <<Head(s)>> \o InsertDesc(x, Tail(s))
    ELSE <<x>> \o s

RECURSIVE SortPrefix(_, _)
SortPrefix(s, k) == IF k = 0 THEN <<>> ELSE InsertDesc(s[k], SortPrefix(s, k - 1))

SortByScoreDesc(s) == SortPrefix(s, Len(s))

BatchInit ==
    /\ AnalysisIdle
    /\ StrategyIdle
    /\ outcome \in [1..NumTickers -> Outcomes]
    /\ queue = Tickers
    /\ running = {}
    /\ finished = {}
    /\ results = <<>>
    /\ processed_count = 0
    /\ ranking = NotReturned

\* A free worker thread takes the next submitted ticker
WorkerStart ==
    /\ queue # <<>>
    /\ Cardinality(running) < max_workers
    /\ running' = running \cup {Head(queue)}
    /\ queue' = Tail(queue)
    /\ UNCHANGED <<outcome, finished, results, processed_count, ranking,
                   analysis_vars, strategy_vars>>

\* A worker thread ends analyze_stock for its ticker: the future completes
WorkerFinish ==
    \E t \in running :
        /\ running' = running \ {t}
        /\ finished' = finished \cup {t}
        /\ UNCHANGED <<outcome, queue, results, processed_count, ranking,
                       analysis_vars, strategy_vars>>

\* One iteration of `for future in as_completed(future_to_code)`
Collect ==
    \E t \in finished :
        /\ finished' = finished \ {t}
        /\ processed_count' = processed_count + 1
        /\ results' = Collected(results, t, outcome[t])
        /\ UNCHANGED <<outcome, queue, running, ranking,
                       analysis_vars, strategy_vars>>

\* After the loop: results.sort(...); return results
SortAndReturn ==
    /\ ~ranking.done
    /\ processed_count = NumTickers
    /\ ranking' = [done |-> TRUE, list |-> SortByScoreDesc(results)]
    /\ UNCHANGED <<outcome, queue, running, finished, results, processed_count,
                   analysis_vars, strategy_vars>>

BatchNext == WorkerStart \/ WorkerFinish \/ Collect \/ SortAndReturn

SpecBatch == BatchInit /\ [][BatchNext]_vars

---------------------------------------------------------------------------
(* calculate_strategy: one table row per target code                        *)

NumTargets == 4

\* What ticker.history returns for a target: nothing, a few bars, 80 bars
TargetHistories ==
    { <<>>,
      BuildHist(0, 5, 1000, 100, <<>>),
      BuildHist(50, 30, 1030, 100, <<>>) }

\* `if not data`: None and an empty dictionary are falsy
DataMissing(data) == data.kind = "None"

\* The row printed for target i: the N/A row, or the formatted metrics
RowOf(i, data) ==
    IF DataMissing(data) THEN [Code |-> i, na |-> TRUE, DipDesc |-> "N/A"]
    ELSE [Code |-> i, na |-> FALSE, DipDesc |-> data.DipDesc]

StrategyInit ==
    /\ AnalysisIdle
    /\ BatchIdle
    /\ target_hist \in [1..NumTargets -> TargetHistories]
    /\ next_target = 1
    /\ printed = <<>>
    /\ raised = FALSE

\* One iteration of `for code in targets`: get_strategy_metrics is called
\* outside any try block, so its exception leaves calculate_strategy
PrintRow ==
    /\ ~raised
    /\ next_target <= NumTargets
    /\ LET data == get_strategy_metrics(target_hist[next_target])
       IN  IF data.kind = "raise"
               THEN /\ raised' = TRUE
                    /\ UNCHANGED <<next_target, printed>>
               ELSE /\ printed' = Append(printed, RowOf(next_target, data))
                    /\ next_target' = next_target + 1
                    /\ UNCHANGED raised
    /\ UNCHANGED <<target_hist, analysis_vars, batch_vars>>

StrategyNext == PrintRow

SpecStrategy == StrategyInit /\ [][StrategyNext]_vars

---------------------------------------------------------------------------
(* Properties *)

HasPlan == plan.kind = "plan"
HasResult == res.kind = "result"

\* C1: whenever analyze_stock returns a result, its Score is between 0 and 100.
C1_ScoreInRange ==
    HasResult => (res.Score >= 0 /\ res.Score <= 100)

\* C2: the entry policy is the first matching row of the decision table over
\* (price, ma5, ma25, ma75, rsi), and the entry price is the one of that row.
C2_DecisionTable ==
    HasPlan =>
        LET p == plan.CurrentPrice
            i == plan.ind
            r1 == Gt(p, i.ma5) /\ FGe(i.rsi, 60, 1)
            r2 == Gt(p, i.ma25) /\ FGe(i.rsi, 45, 1)
            r3 == Gt(p, i.ma25)
            r4 == Gt(p, i.ma75)
        IN  /\ plan.DipDesc \in {"Momentum Buy", "Trend Follow (MA5)",
                                 "Dip Buy (MA25)", "Rebound (MA75)",
                                 "Bottom Fishing"}
            /\ plan.DipDesc = "Momentum Buy" <=> r1
            /\ plan.DipDesc = "Trend Follow (MA5)" <=> (~r1 /\ r2)
            /\ plan.DipDesc = "Dip Buy (MA25)" <=> (~r1 /\ ~r2 /\ r3)
            /\ plan.DipDesc = "Rebound (MA75)" <=> (~r1 /\ ~r2 /\ ~r3 /\ r4)
            /\ plan.DipDesc = "Bottom Fishing" <=> (~r1 /\ ~r2 /\ ~r3 /\ ~r4)
            /\ plan.DipDesc = "Momentum Buy" => plan.EntryPrice = p
            /\ plan.DipDesc = "Trend Follow (MA5)" => plan.EntryPrice = i.ma5
            /\ plan.DipDesc = "Dip Buy (MA25)" => plan.EntryPrice = i.ma25
            /\ plan.DipDesc = "Rebound (MA75)" => plan.EntryPrice = i.ma75
            /\ plan.DipDesc = "Bottom Fishing" => plan.EntryPrice = p

\* A plan where the first row matches the price test of the second row too
\* (price above MA5 and MA25, RSI at least 60): the first row must win.
C2_Witness ==
    /\ HasPlan
    /\ plan.DipDesc = "Momentum Buy"
    /\ Gt(plan.CurrentPrice, plan.ind.ma25)

\* C3: in every plan RR is a finite number, and RR >= 1.0 implies
\* StopLoss < EntryPrice < TargetProfit.
C3_OrderedWhenFavourable ==
    HasPlan =>
        /\ plan.RR.t = "num"
        /\ FGe(plan.RR, 1, 1) =>
            /\ Lt(plan.StopLoss, plan.EntryPrice)
            /\ Lt(plan.EntryPrice, plan.TargetProfit)

C3_Witness == HasPlan /\ FGe(plan.RR, 1, 1) /\ plan.ATR.v > 0

\* C4: StopLoss = EntryPrice - 2 ATR; TargetProfit is the 60-bar high unless that
\* is less than 1.5 ATR above the entry, then EntryPrice + 4 ATR; so with
\* ATR >= 0 the target is at least 1.5 ATR above the entry.
C4_StopAndTarget ==
    HasPlan =>
        LET e == plan.EntryPrice.v
            a == plan.ATR.v
            rh == plan.ind.recent_high.v
        IN  /\ IsNum(plan.EntryPrice) /\ IsNum(plan.ATR)
            /\ plan.StopLoss = Num(e - 2 * a)
            /\ plan.TargetProfit =
                    (IF 2 * (rh - e) < 3 * a THEN Num(e + 4 * a) ELSE Num(rh))
            /\ a >= 0 => 2 * (plan.TargetProfit.v - e) >= 3 * a

\* A plan that uses the replacement target
C4_Witness ==
    /\ HasPlan
    /\ plan.ATR.v > 0
    /\ plan.TargetProfit = Num(plan.EntryPrice.v + 4 * plan.ATR.v)
    /\ plan.TargetProfit # plan.ind.recent_high

\* The stop distance EntryPrice - StopLoss of a plan is not positive
DegenerateStop == ~Gt(Sub(plan.EntryPrice, plan.StopLoss), Num(0))

\* C5 as claimed: with a stop distance <= 0, RR is the profit divided by a small
\* positive epsilon (0.1 here; RR * epsilon = TargetProfit - EntryPrice).
C5_EpsilonClamp ==
    (HasPlan /\ DegenerateStop) =>
        /\ plan.RR.t = "num"
        /\ plan.RR.num * (K \div 10) =
                (plan.TargetProfit.v - plan.EntryPrice.v) * plan.RR.den

\* C5 as amended: with a stop distance <= 0, RR is 0 and nothing is divided.
C5_ZeroWhenDegenerate ==
    (HasPlan /\ DegenerateStop) => plan.RR = Frac(0, 1)

\* A plan with ATR = 0 (stop distance 0) whose target lies above the entry
C5_Witness ==
    /\ HasPlan
    /\ DegenerateStop
    /\ Gt(plan.TargetProfit, plan.EntryPrice)

\* C6: for an empty price series both functions return None; neither raises.
C6_EmptyGivesNone ==
    Len(hist) = 0 =>
        /\ plan.kind \in {"pending", "None"}
        /\ res.kind \in {"pending", "None"}

\* C7: for a non-empty series too short for some indicator (fewer than 75
\* bars), neither function raises: each returns a value.
C7_ShortSeriesNoRaise ==
    (Len(hist) > 0 /\ Len(hist) < 75) =>
        /\ plan.kind # "raise"
        /\ res.kind # "raise"

\* Fundamentals are absent from a call: no (or an empty) fundamentals argument,
\* and ticker.info not consulted, failing, or without a non-zero P/B and P/E.
NoValue == {Missing, None, Num(0)}
FundamentalsAbsent ==
    /\ args.called
    /\ ~FundamentalsTruthy(args.f)
    /\ \/ args.batch
       \/ args.info.raises
       \/ args.info.priceToBook \in NoValue /\ args.info.trailingPE \in NoValue

\* C8: the Fundamentals subscore is never negative, and it is 0 when the
\* fundamentals are absent or P/B and P/E are both zero.
C8_FundamentalsZeroWhenAbsent ==
    HasResult =>
        /\ res.ScoreDetail.Fundamentals >= 0
        /\ FundamentalsAbsent => res.ScoreDetail.Fundamentals = 0
        /\ (res.PBR = Num(0) /\ res.PER = Num(0)) => res.ScoreDetail.Fundamentals = 0

C8_Witness ==
    /\ HasResult
    /\ FundamentalsAbsent
    /\ ~args.batch /\ ~args.info.raises
    /\ res.ScoreDetail.Fundamentals = 0

\* C9 as claimed: with a daily return below -3% the Volume subscore is never
\* positive, and it is negative whenever the volume ratio is in a bonus tier
\* (above 1.2).
C9_PenaltyInEveryTier ==
    (HasResult /\ FLt(res.ind.daily_ret, -3, 100)) =>
        /\ res.ScoreDetail.Volume <= 0
        /\ FGt(res.ind.vol_ratio, 12, 10) => res.ScoreDetail.Volume < 0

\* C9 as amended: with a daily return below -3% the Volume subscore is -10 when
\* the volume ratio is above 1.5 and 0 otherwise (so never positive).
C9_PenaltyAboveOneAndHalf ==
    (HasResult /\ FLt(res.ind.daily_ret, -3, 100)) =>
        res.ScoreDetail.Volume =
            (IF FGt(res.ind.vol_ratio, 3, 2) THEN -10 ELSE 0)

C9_Witness ==
    /\ HasResult
    /\ FLt(res.ind.daily_ret, -3, 100)
    /\ FGt(res.ind.vol_ratio, 3, 2)
    /\ res.ScoreDetail.Volume = -10

\* C10 as claimed: Momentum is at most 20, is 20 for RSI in 50..75, and is
\* negative for every RSI above 75.
C10_PenaltyAbove75 ==
    HasResult =>
        /\ res.ScoreDetail.Momentum <= 20
        /\ (FGe(res.RSI, 50, 1) /\ FLe(res.RSI, 75, 1)) => res.ScoreDetail.Momentum = 20
        /\ FGt(res.RSI, 75, 1) => res.ScoreDetail.Momentum < 0

\* C10 as amended: Momentum is at most 20, is 20 exactly for RSI in 50..75, is
\* negative (-5) for every RSI above 80 and 0 for RSI above 75 up to 80.
C10_PenaltyAbove80 ==
    HasResult =>
        /\ res.ScoreDetail.Momentum <= 20
        /\ (FGe(res.RSI, 50, 1) /\ FLe(res.RSI, 75, 1)) <=> res.ScoreDetail.Momentum = 20
        /\ FGt(res.RSI, 80, 1) => res.ScoreDetail.Momentum = -5
        /\ (FGt(res.RSI, 75, 1) /\ FLe(res.RSI, 80, 1)) => res.ScoreDetail.Momentum = 0

C10_Witness ==
    /\ HasResult
    /\ FGt(res.RSI, 80, 1)
    /\ res.ScoreDetail.Momentum = -5

\* C11 as claimed: the Trend subscore lies between 0 and 30.
C11_TrendAtMost30 ==
    HasResult => (res.ScoreDetail.Trend >= 0 /\ res.ScoreDetail.Trend <= 30)

\* C11 as amended: the Trend subscore lies between 0 and 50 (seven bonuses of
\* 10, 10, 10, 5, 5, 5, 5) and is a multiple of 5.
C11_TrendAtMost50 ==
    HasResult =>
        /\ res.ScoreDetail.Trend >= 0
        /\ res.ScoreDetail.Trend <= 50
        /\ res.ScoreDetail.Trend % 5 = 0

\* A result where every trend bonus is earned
C11_Witness == HasResult /\ res.ScoreDetail.Trend = 50

RECURSIVE Gcd(_, _)
Gcd(a, b) == IF b = 0 THEN a ELSE Gcd(b, a % b)

\* Two quotients are the same number (or the same non-number)
SameFrac(a, b) ==
    IF a.t = "num" /\ b.t = "num"
        THEN LET ga == Gcd(Abs(a.num), a.den)
                 gb == Gcd(Abs(b.num), b.den)
             IN  /\ a.num \div ga = b.num \div gb
                 /\ a.den \div ga = b.den \div gb
        ELSE a.t = b.t

\* The RiskReward subscore follows the reported ratio: min(10, 3 rr) when
\* rr >= 1.0 and 0 otherwise (the breakdown entry is its integer part).
RiskRewardSubscoreRule ==
    /\ res.ind.score_rr =
            (IF FGe(res.RR, 1, 1)
                THEN (IF FLt(res.RR, 10, 3)
                        THEN Frac(3 * res.RR.num, res.RR.den)
                        ELSE Frac(10, 1))
                ELSE Frac(0, 1))
    /\ res.ScoreDetail.RiskReward = res.ind.score_rr.num \div res.ind.score_rr.den

\* C12 as claimed: the ratio analyze_stock reports is the RR that
\* get_strategy_metrics computes for the same series, and the subscore is
\* min(cap, rr * multiplier) when rr >= 1.0 and 0 otherwise.
C12_SameRatioAsStrategy ==
    (HasPlan /\ HasResult) =>
        /\ SameFrac(res.RR, plan.RR)
        /\ RiskRewardSubscoreRule

\* C12 as amended: analyze_stock reports its own ratio, (recent_high - price) /
\* (price - StopLoss) with StopLoss = price - 2 ATR when price < ma25 and
\* ma25 - ATR otherwise, the denominator replaced by 0.1 when it is <= 0, NaN
\* when ma25 or ATR is undefined; the subscore is min(10, 3 rr) when rr >= 1.0
\* and 0 otherwise.
C12_OwnRatio ==
    HasResult =>
        LET p == res.Price.v
            m == res.MA25
            a == res.ind.atr
            rh == res.ind.recent_high.v
            stop == IF p < m.v THEN p - 2 * a.v ELSE m.v - a.v
            down == IF p - stop <= 0 THEN K \div 10 ELSE p - stop
        IN  /\ res.RR = (IF IsNum(m) /\ IsNum(a) THEN Frac(rh - p, down) ELSE FracNaN)
            /\ RiskRewardSubscoreRule

\* Both functions ran on a series where the two ratios differ and the one of
\* analyze_stock earns a subscore
C12_Witness ==
    /\ HasPlan /\ HasResult
    /\ plan.RR.t = "num"
    /\ FGe(res.RR, 1, 1)
    /\ ~SameFrac(res.RR, plan.RR)
    /\ res.ScoreDetail.RiskReward > 0

\* Sums of the last 14 gains and losses of the series (14 times the averages)
Gain14 == SumRange(GainCol(hist), Len(hist) - 13, Len(hist))
Loss14 == SumRange(LossCol(hist), Len(hist) - 13, Len(hist))

\* An RSI value between 0 and 100 inclusive
RsiInRange(r) == r.t = "num" /\ FGe(r, 0, 1) /\ FLe(r, 100, 1)

\* An RSI value equal to 100
RsiIs100(r) == r.t = "num" /\ r.num = 100 * r.den

\* C15 as claimed: with at least 15 bars the RSI of both functions is in
\* [0,100], and it is 100 whenever the 14-bar average loss is zero.
C15_RsiSaturates ==
    Len(hist) >= 15 =>
        /\ HasPlan => (RsiInRange(plan.ind.rsi) /\ (Loss14 = 0 => RsiIs100(plan.ind.rsi)))
        /\ HasResult => (RsiInRange(res.RSI) /\ (Loss14 = 0 => RsiIs100(res.RSI)))

\* C15 as amended: with at least 15 bars the RSI of both functions is NaN when
\* the 14-bar average gain and loss are both zero, and otherwise in [0,100], and
\* 100 when the average loss is zero and the average gain is positive.
C15_RsiNaNWhenFlat ==
    Len(hist) >= 15 =>
        LET ok(r) == IF Gain14 = 0 /\ Loss14 = 0 THEN r.t = "nan"
                     ELSE RsiInRange(r) /\ (Loss14 = 0 => RsiIs100(r))
        IN  /\ HasPlan => ok(plan.ind.rsi)
            /\ HasResult => ok(res.RSI)

\* Both functions ran on a series whose last 14 changes are all zero
C15_Witness ==
    /\ Len(hist) >= 15
    /\ HasPlan /\ HasResult
    /\ Gain14 = 0 /\ Loss14 = 0
    /\ plan.ind.rsi.t = "nan" /\ res.RSI.t = "nan"

\* The flat series: 100 bars with high = low = close = 1000 and volume 1000
Flat100 ==
    /\ Len(hist) = 100
    /\ \A i \in 1..100 : hist[i] = MkBar(1000, 0, 1000)

\* C16: on the flat series of 100 bars with fundamentals absent, analyze_stock
\* returns a result with volume ratio 1.0, Trend 0, Momentum 0, an undefined
\* RSI and a Score between 0 and 9.
C16_FlatSeries ==
    (Flat100 /\ FundamentalsAbsent /\ res # Pending) =>
        /\ HasResult
        /\ res.ind.vol_ratio.t = "num"
        /\ res.ind.vol_ratio.num = res.ind.vol_ratio.den
        /\ res.RSI.t = "nan"
        /\ res.ScoreDetail.Trend = 0
        /\ res.ScoreDetail.Momentum = 0
        /\ res.Score \in 0..9

\* analyze_stock returned on the flat series with fundamentals absent
C16_Witness ==
    /\ Flat100
    /\ FundamentalsAbsent
    /\ HasResult
    /\ res.Score = 0

\* C18: in every plan the entry price is at most the current price: equal to
\* it for Momentum Buy and Bottom Fishing, at or below it for Trend Follow,
\* Dip Buy and Rebound.
C18_EntryAtOrBelowPrice ==
    HasPlan =>
        /\ Le(plan.EntryPrice, plan.CurrentPrice)
        /\ plan.DipDesc \in {"Momentum Buy", "Bottom Fishing"} =>
                plan.EntryPrice = plan.CurrentPrice

\* The sum of the five entries of the ScoreDetail breakdown
DetailSum ==
    res.ScoreDetail.Trend + res.ScoreDetail.Momentum + res.ScoreDetail.Volume
        + res.ScoreDetail.Fundamentals + res.ScoreDetail.RiskReward

\* C19: for every result, Score is the sum of the five integer ScoreDetail
\* entries.
C19_ScoreIsDetailSum ==
    HasResult => res.Score = DetailSum

\* C13: the returned list is sorted by Score descending, and results with
\* equal Score appear in the order of their tickers in the ticker list.
C13_TiesInInputOrder ==
    ranking.done =>
        \A i, j \in 1..Len(ranking.list) :
            i < j =>
                \/ ranking.list[i].Score > ranking.list[j].Score
                \/ /\ ranking.list[i].Score = ranking.list[j].Score
                   /\ ranking.list[i].Code < ranking.list[j].Code

\* C14: the batch always runs to completion (before the return some step is
\* possible), and the returned list has exactly one entry, with its Score
\* unaltered, for each ticker whose analysis gave a result, and no other entry.
C14_OneEntryPerValidTicker ==
    /\ (outcome # <<>> /\ ~ranking.done) => ENABLED BatchNext
    /\ ranking.done =>
        /\ \A t \in 1..NumTickers :
              outcome[t].kind = "result" =>
                  /\ Cardinality({i \in 1..Len(ranking.list) :
                                     ranking.list[i].Code = t}) = 1
                  /\ ResultOf(t, outcome[t]) \in
                        {ranking.list[i] : i \in 1..Len(ranking.list)}
        /\ \A i \in 1..Len(ranking.list) :
              outcome[ranking.list[i].Code].kind = "result"

\* A batch returned in which one ticker raised, one returned None and two
\* gave a result
C14_Witness ==
    /\ ranking.done
    /\ \E t \in 1..NumTickers : outcome[t].kind = "raise"
    /\ \E t \in 1..NumTickers : outcome[t].kind = "None"
    /\ Len(ranking.list) = 2

\* calculate_strategy has stopped: the loop ended or an exception left it
StrategyStopped == raised \/ next_target > NumTargets

\* C17: calculate_strategy prints exactly one row per target code, in target
\* order: a data row when get_strategy_metrics yields metrics, an N/A row when
\* the data of that code is missing, and it goes on with the later targets.
C17_OneRowPerTarget ==
    (target_hist # <<>> /\ StrategyStopped) =>
        /\ Len(printed) = NumTargets
        /\ \A i \in 1..NumTargets :
              /\ printed[i].Code = i
              /\ printed[i].na = (target_hist[i] = <<>>)

\* The tag is among the short reasons of the result
HasTag(tag) == \E i \in 1..Len(res.Details) : res.Details[i] = tag

\* C21: in every result the panic tag is present exactly when the Volume
\* subscore is -10, the volume-increase tag exactly when it is +10, and the
\* two tags never appear together.
C21_VolumeTagsAgree ==
    HasResult =>
        /\ HasTag("panic") <=> (res.ScoreDetail.Volume = -10)
        /\ HasTag("volume_up") <=> (res.ScoreDetail.Volume = 10)
        /\ ~(HasTag("panic") /\ HasTag("volume_up"))

\* A result for a sharp drop on high volume: panic tag, Volume subscore -10
C21_Witness ==
    /\ HasResult
    /\ FGt(res.ind.vol_ratio, 3, 2)
    /\ FLt(res.ind.daily_ret, -3, 100)
    /\ HasTag("panic")
    /\ res.ScoreDetail.Volume = -10

====
